---- MODULE Spec2Model ----
(***************************************************************************)
(* A model of nagioscfg's io.go: the rune-level Reader (readRune,          *)
(* parseFields, parseLine, Read), the asynchronous adapters                *)
(* (Reader.ReadChan, MultiFileReader.ReadChan) and the origin-sharded      *)
(* writer (CfgMap.WriteByFileID).                                          *)
(*                                                                         *)
(* Runes are one-character strings, the input stream is a string, and the  *)
(* rune at 0-based offset p of a stream s is SubSeq(s, p+1, p+1).          *)
(***************************************************************************)
EXTENDS Integers, Sequences, FiniteSets, TLC

VARIABLES
    \* ---- one Reader driven by a caller that calls Read repeatedly ----
    lines,      \* the physical lines the input was built from (indices into Lines)
    tail,       \* the last, unterminated line of the input (index into Tails)
    input,      \* the input stream of the Reader
    rd,         \* the Reader's fields: pos (offset in input), line, inputline, column, made
    setUUID,    \* the setUUID argument the caller passes to Read
    uuidorder,  \* the process-wide read-order ledger
    rets,       \* what each call to Read returned, in call order
    \* ---- MultiFileReader.ReadChan: mfr[i] is source i, i in 1..Len(mfr) ----
    mfr,        \* per source: in (its stream), rd (its Reader), made (the objects its Read returned)
    mainPc,     \* MultiFileReader.ReadChan: call (not called yet), ret (it returned out)
    adPc,       \* per source, the adapter task of Reader.ReadChan: idle, read, send, done
    adObj,      \* per source, the object the adapter is about to send
    adSnap,     \* per source, the value of uuidorder the adapter's Read loaded for its append
    fcs,        \* per source, the buffered channel objchan: buf (queue), closed
    rlPc,       \* per source, the relay task output(c): idle, recv, send, done
    rlV,        \* per source, the object the relay is about to forward
    wg,         \* the WaitGroup counter
    wtPc,       \* the task that waits and closes out: idle, wait, done
    out,        \* the merged channel: closed, panicked (a send met it closed)
    consPc,     \* the consumer of the merged channel: recv, done
    got,        \* the objects the consumer received, in order
    \* ---- CfgMap.WriteByFileID ----
    cm,         \* the CfgMap: cm[k] is the object whose UUID is <<0, k>>
    wPc,        \* WriteByFileID: call (not called yet), collect (ranging over schan), ret
    tasks,      \* the writer tasks started: file, pc (create, write, send, done), err, fail, sent
    files,      \* the file system: per path, exists and content (the objects printed)
    schan,      \* the results channel: closed, panicked (a send met it closed)
    wwg,        \* the WaitGroup counter
    wwtPc,      \* the task that waits and closes schan: idle, wait, done
    errcnt,     \* the collector's count of non-nil results
    wret,       \* what WriteByFileID returned: isNil, count (the number in the message)
    \* ---- CfgObj.Print and CfgObj.PrintPropsSorted on an object obtained from Read ----
    pin,        \* the text the object is read from
    pobj,       \* the object Read returned for pin
    indent,     \* the object's Indent
    align,      \* the object's Align
    printed,    \* what Print(w, false) wrote
    pret,       \* what Read returned for printed: obj, err
    sorted,     \* what each run of PrintPropsSorted wrote: a sequence of lines per run
    pPc         \* read, print, reread, sort, done

rvars == <<lines, tail, input, rd, rets>>
mvars == <<mfr, mainPc, adPc, adObj, adSnap, fcs, rlPc, rlV, wg, wtPc, out, consPc, got>>
wvars == <<cm, wPc, tasks, files, schan, wwg, wwtPc, errcnt, wret>>
pvars == <<pin, pobj, indent, align, printed, pret, sorted, pPc>>
vars == <<rvars, setUUID, uuidorder, mvars, wvars, pvars>>

(***************************************************************************)
(* Runes, errors, line classes                                             *)
(***************************************************************************)

\* The rune a failed ReadRune returns.
NUL == ""

\* unicode.IsSpace over the runes that occur in the modelled inputs.
IsSpace(r) == r \in {" ", "\t", "\n", "\r"}

\* Reader.Comment as set by NewReader.
Comment == "#"

\* The brace-heuristic column threshold.
DEF_ALIGN == 32

NoErr == [kind |-> "nil", Line |-> 0, Column |-> 0]
EOF == [kind |-> "EOF", Line |-> 0, Column |-> 0]
\* An error of the underlying stream that is not io.EOF.
IOErr == [kind |-> "ioerr", Line |-> 0, Column |-> 0]
\* The runtime panic of an out-of-range index.
Panic == [kind |-> "panic", Line |-> 0, Column |-> 0]

\* Reader.error(ErrUnknown): a ParseError at the reader's line and column.
ParseError(r) == [kind |-> "ParseError", Line |-> r.line, Column |-> r.column]

\* The IoState values.
IO_OBJ_OUT == "IO_OBJ_OUT"
IO_OBJ_BEGIN == "IO_OBJ_BEGIN"
IO_OBJ_IN == "IO_OBJ_IN"
IO_OBJ_END == "IO_OBJ_END"

(***************************************************************************)
(* Configuration objects                                                   *)
(***************************************************************************)

T_INVALID == "T_INVALID"

\* The object type names CfgName.Type() resolves.
KnownTypes == {"command", "contact", "contactgroup", "host", "hostgroup",
               "service", "servicegroup", "timeperiod"}

\* CfgName(name).Type()
CfgType(name) == IF name \in KnownTypes THEN name ELSE T_INVALID

\* The nil *CfgObj.
NilObj ==
    [nil |-> TRUE, addr |-> <<>>, Type |-> T_INVALID, Props |-> {}, FileID |-> "",
     UUID |-> <<>>]

\* NewCfgObj(ct): a new object at the fresh address addr; Props is the set of
\* <<key, value>> pairs of the property map.
NewCfgObj(ct, addr) ==
    [nil |-> FALSE, addr |-> addr, Type |-> ct, Props |-> {}, FileID |-> "",
     UUID |-> <<>>]

\* NewCfgObjWithUUID(ct): uuid stands for the fresh UUID.
NewCfgObjWithUUID(ct, addr, uuid) == [NewCfgObj(ct, addr) EXCEPT !.UUID = uuid]

HasKey(props, k) == \E p \in props : p[1] = k

\* co.Add(key, val): adds the pair unless the key is already there.
Add(co, key, val) ==
    IF HasKey(co.Props, key) THEN co
    ELSE [co EXCEPT !.Props = @ \cup {<<key, val>>}]

(***************************************************************************)
(* The Reader                                                              *)
(***************************************************************************)

\* r.r.ReadRune(): the next rune of the stream, or io.EOF, or the error of a
\* stream whose read at offset r.failAt fails (r.ioerr: none, once, always).
ReadRune(in, r) ==
    IF r.ioerr # "none" /\ r.pos = r.failAt
    THEN [r |-> NUL, err |-> IOErr,
          rd |-> [r EXCEPT !.ioerr = IF @ = "once" THEN "none" ELSE @]]
    ELSE IF r.pos < Len(in)
    THEN [r |-> SubSeq(in, r.pos + 1, r.pos + 1), err |-> NoErr,
          rd |-> [r EXCEPT !.pos = @ + 1]]
    ELSE [r |-> NUL, err |-> EOF, rd |-> r]

\* r.r.UnreadRune() after a successful ReadRune.
UnreadRune(r) == [r EXCEPT !.pos = @ - 1]

\* Reader.readRune, lines 152-159: the rune after a "\r" was read (b).
readRuneCR(b) ==
    IF b.err = NoErr /\ b.r # "\n"
    THEN [r |-> "\r", err |-> b.err, rd |-> [UnreadRune(b.rd) EXCEPT !.column = @ + 1]]
    ELSE [r |-> b.r, err |-> b.err, rd |-> [b.rd EXCEPT !.column = @ + 1]]

\* Reader.readRune, lines 152-164, after its first ReadRune (a).
readRuneGot(in, a) ==
    IF a.r = "\r"
    THEN readRuneCR(ReadRune(in, a.rd))
    ELSE [r |-> a.r, err |-> a.err,
          rd |-> [a.rd EXCEPT !.column = @ + 1,
                              !.inputline = IF a.r = "\n" THEN @ + 1 ELSE @]]

\* Reader.readRune: CRLF collapses to "\n", a lone CR stays; column++.
readRune(in, r) == readRuneGot(in, ReadRune(in, r))

\* The call to readRune made at offset p returns, without an error, a rune
\* that is in runes (within) or a rune that is not in runes (~within).
RunsOn(in, r, p, runes, within) ==
    /\ p < Len(in)
    /\ ~(r.ioerr # "none" /\ p = r.failAt)
    /\ (SubSeq(in, p + 1, p + 1) \in runes) = within

\* The number of runes that the next calls to readRune return one after the
\* other, without an error, and that are all in runes (within) or all not in
\* runes (~within); no such rune is "\r" or "\n", the runes readRune does more
\* for than count a column.
Run(in, r, runes, within) ==
    CHOOSE n \in 0..(Len(in) - r.pos) :
        /\ ~RunsOn(in, r, r.pos + n, runes, within)
        /\ \A m \in 0..(n - 1) : RunsOn(in, r, r.pos + m, runes, within)

\* The reader after n such calls to readRune.
Advance(r, n) == [r EXCEPT !.pos = @ + n, !.column = @ + n]

\* Reader.skip(delim): reads up to and including delim; the iterations over a
\* run of runes that are not delim are taken at once.
RECURSIVE skip(_, _, _)
skipGot(in, a, delim) ==
    IF a.err # NoErr THEN [err |-> a.err, rd |-> a.rd]
    ELSE IF a.r = delim THEN [err |-> NoErr, rd |-> a.rd]
    ELSE skip(in, Advance(a.rd, Run(in, a.rd, {delim, "\r", "\n"}, FALSE)), delim)

skip(in, r, delim) == skipGot(in, readRune(in, r), delim)

\* parseFields, lines 183-186: skip the whitespace that is not a newline; a is
\* what the last readRune returned. The iterations over a run of spaces and
\* tabs are taken at once.
RECURSIVE SkipBlanks(_, _)
SkipBlanks(in, a) ==
    IF a.err = NoErr /\ a.r # "\n" /\ IsSpace(a.r)
    THEN SkipBlanks(in, readRune(in, Advance(a.rd, Run(in, a.rd, {" ", "\t"}, TRUE))))
    ELSE a

\* parseFields, lines 213-243: the loop that accumulates one field. r1 is the
\* rune in hand, a what the loop's readRune returned, f2 the field buffer. The
\* iterations over a run of runes that are neither whitespace nor "{", each of
\* which is written to the buffer, are taken at once.
RECURSIVE Accumulate(_, _, _, _)
AccumulateGot(in, a, f2) ==
    IF a.err # NoErr THEN [r |-> a.r, err |-> a.err, field |-> f2, rd |-> a.rd]
    ELSE IF a.r = "{"
         THEN IF a.rd.column > DEF_ALIGN
              THEN Accumulate(in, a.rd, a.r, f2)
              ELSE [r |-> a.r, err |-> a.err, field |-> f2, rd |-> a.rd]
    ELSE IF IsSpace(a.r) THEN [r |-> a.r, err |-> a.err, field |-> f2, rd |-> a.rd]
    ELSE Accumulate(in, a.rd, a.r, f2)

\* The runes that end a run of the loop: whitespace (IsSpace) and "{".
FieldEnds == {" ", "\t", "\n", "\r", "{"}

AccumulateRun(in, r, f2, n) ==
    AccumulateGot(in, readRune(in, Advance(r, n)), f2 \o SubSeq(in, r.pos + 1, r.pos + n))

Accumulate(in, r, r1, field) ==
    AccumulateRun(in, r, IF ~IsSpace(r1) THEN field \o r1 ELSE field, Run(in, r, FieldEnds, FALSE))

\* What parseFields returns, and the reader after it.
FieldResult(have, delim, err, field, r) ==
    [haveField |-> have, delim |-> delim, err |-> err, field |-> field, rd |-> r]

\* parseFields, lines 246-253: after the accumulating loop ended with b.
parseFieldsEnd(b) ==
    IF b.err # NoErr
    THEN IF b.err = EOF THEN FieldResult(TRUE, NUL, b.err, b.field, b.rd)
         ELSE FieldResult(FALSE, NUL, b.err, b.field, b.rd)
    ELSE FieldResult(TRUE, b.r, NoErr, b.field, b.rd)

\* parseFields, lines 187-244: a is the first rune that is a newline or no
\* whitespace, or the error met on the way to it.
parseFieldsAt(in, a) ==
    IF a.err = EOF /\ a.rd.column # 0 THEN FieldResult(TRUE, NUL, a.err, "", a.rd)
    ELSE IF a.err # NoErr THEN FieldResult(FALSE, NUL, a.err, "", a.rd)
    ELSE IF a.r \in {"\n", "\t", " ", "{"} THEN FieldResult(FALSE, a.r, NoErr, "", a.rd)
    ELSE IF a.r = "}" THEN FieldResult(TRUE, a.r, NoErr, "", a.rd)
    ELSE parseFieldsEnd(Accumulate(in, a.rd, a.r, ""))

\* Reader.parseFields: one field and the delimiter that ended it.
parseFields(in, r) == parseFieldsAt(in, SkipBlanks(in, readRune(in, r)))

\* What parseLine returns, and the reader after it.
LineResult(fields, state, err, r) ==
    [fields |-> fields, state |-> state, err |-> err, rd |-> r]

\* parseLine, lines 269-290: collect the fields of one line; p is what
\* parseFields returned.
RECURSIVE FieldLoop(_, _, _)
FieldLoopGot(in, p, fields) ==
    LET fs == IF p.haveField THEN Append(fields, p.field) ELSE fields
    IN  IF p.delim = "{" THEN LineResult(fs, IO_OBJ_BEGIN, p.err, p.rd)
        ELSE IF p.delim = "}" THEN LineResult(fs, IO_OBJ_END, p.err, p.rd)
        ELSE IF p.delim = "\n" THEN LineResult(fs, IO_OBJ_IN, p.err, p.rd)
        ELSE IF p.err = EOF THEN LineResult(fs, IO_OBJ_OUT, p.err, p.rd)
        ELSE IF p.err # NoErr THEN LineResult(<<>>, IO_OBJ_OUT, p.err, p.rd)
        ELSE FieldLoop(in, p.rd, fs)

FieldLoop(in, r, fields) == FieldLoopGot(in, parseFields(in, r), fields)

\* parseLine, line 265: a comment line is skipped; s is what skip returned.
parseLineComment(s) == LineResult(<<>>, IO_OBJ_OUT, s.err, s.rd)

\* parseLineGot without the test for the comment marker.
parseLineGotNoComment(in, a) ==
    IF a.err # NoErr THEN LineResult(<<>>, IO_OBJ_OUT, a.err, a.rd)
    ELSE FieldLoop(in, UnreadRune(a.rd), <<>>)

\* parseLine, lines 260-268: a is the first rune of the line.
parseLineGot(in, a) ==
    IF a.err # NoErr THEN LineResult(<<>>, IO_OBJ_OUT, a.err, a.rd)
    ELSE IF a.r = Comment THEN parseLineComment(skip(in, a.rd, "\n"))
    ELSE FieldLoop(in, UnreadRune(a.rd), <<>>)

\* Reader.parseLine: the fields of the next line and its class.
parseLine(in, r) == parseLineGot(in, ReadRune(in, [r EXCEPT !.line = @ + 1, !.column = -1]))

\* The n-th object a reader allocates lives at <<rid, n>>, which also stands for
\* the UUID generated for it.
\*
\* What one call to Read hands back: the object, the error and the reader after
\* the call; site names the return statement taken, appended the UUIDs the call
\* appended to uuidorder, atEOF whether the last parseLine ended with io.EOF.
ReadResult(obj, err, r, site, appended, atEOF) ==
    [obj |-> obj, err |-> err, rd |-> r, site |-> site,
     appended |-> appended, atEOF |-> atEOF]

\* JoinFields with the separator left out.
RECURSIVE JoinFieldsNoSep(_, _)
JoinFieldsNoSep(fields, from) ==
    IF from > Len(fields) THEN ""
    ELSE fields[from] \o JoinFieldsNoSep(fields, from + 1)

\* strings.Join(fields[from:], " ")
RECURSIVE JoinFields(_, _)
JoinFields(fields, from) ==
    IF from > Len(fields) THEN ""
    ELSE IF from = Len(fields) THEN fields[from]
    ELSE fields[from] \o " " \o JoinFields(fields, from + 1)

\* Read, lines 317-326: the object of a header of type ct, read by reader rid
\* when it had allocated n objects.
OpenObj(ct, su, fileID, rid, n) ==
    [(IF su THEN NewCfgObjWithUUID(ct, <<rid, n + 1>>, <<rid, n + 1>>)
            ELSE NewCfgObj(ct, <<rid, n + 1>>))
        EXCEPT !.FileID = IF fileID # "" THEN fileID ELSE @]

\* Read, lines 302-348: the loop, one line at a time (ReadLine, below).
RECURSIVE ReadLoop(_, _, _, _, _, _, _, _)

\* ReadLine without the test of prevState at line 307: a header line inside an
\* open block opens another object.
ReadLineReopen(in, pl, co, prevState, su, fileID, rid, app) ==
    IF pl.fields # <<>> /\ pl.state = IO_OBJ_BEGIN
    THEN IF Len(pl.fields) < 2
         THEN ReadResult(NilObj, Panic, pl.rd, "panic", app, pl.err = EOF)
         ELSE IF CfgType(pl.fields[2]) = T_INVALID
         THEN ReadResult(NilObj, ParseError(pl.rd), pl.rd, "badtype", app, pl.err = EOF)
         ELSE IF pl.err # NoErr
         THEN ReadResult(NilObj, pl.err, [pl.rd EXCEPT !.made = @ + 1], "err",
                         IF su THEN Append(app, <<rid, pl.rd.made + 1>>) ELSE app,
                         pl.err = EOF)
         ELSE ReadLoop(in, [pl.rd EXCEPT !.made = @ + 1],
                       OpenObj(CfgType(pl.fields[2]), su, fileID, rid, pl.rd.made),
                       IO_OBJ_BEGIN, su, fileID, rid,
                       IF su THEN Append(app, <<rid, pl.rd.made + 1>>) ELSE app)
    ELSE IF pl.fields # <<>> /\ pl.state = IO_OBJ_IN
    THEN IF Len(pl.fields) < 2 \/ co.nil
         THEN ReadLoop(in, pl.rd, co, prevState, su, fileID, rid, app)
         ELSE IF pl.err # NoErr
         THEN ReadResult(NilObj, pl.err, pl.rd, "err", app, pl.err = EOF)
         ELSE ReadLoop(in, pl.rd, Add(co, pl.fields[1], JoinFields(pl.fields, 2)),
                       prevState, su, fileID, rid, app)
    ELSE IF pl.fields # <<>> /\ pl.state = IO_OBJ_END
    THEN ReadResult(co, NoErr, pl.rd, "end", app, pl.err = EOF)
    ELSE IF pl.fields # <<>>
    THEN ReadResult(NilObj, ParseError(pl.rd), pl.rd, "default", app, pl.err = EOF)
    ELSE IF pl.err # NoErr
    THEN ReadResult(NilObj, pl.err, pl.rd, "err", app, pl.err = EOF)
    ELSE ReadLoop(in, pl.rd, co, prevState, su, fileID, rid, app)

\* ReadLine with the return that line 332 keeps in a comment: a line of fewer
\* than two fields ends the call with a ParseError.
ReadLineNoValue(in, pl, co, prevState, su, fileID, rid, app) ==
    IF pl.fields # <<>> /\ pl.state = IO_OBJ_BEGIN
    THEN IF prevState # IO_OBJ_OUT
         THEN ReadLoop(in, pl.rd, co, prevState, su, fileID, rid, app)
         ELSE IF Len(pl.fields) < 2
         THEN ReadResult(NilObj, Panic, pl.rd, "panic", app, pl.err = EOF)
         ELSE IF CfgType(pl.fields[2]) = T_INVALID
         THEN ReadResult(NilObj, ParseError(pl.rd), pl.rd, "badtype", app, pl.err = EOF)
         ELSE IF pl.err # NoErr
         THEN ReadResult(NilObj, pl.err, [pl.rd EXCEPT !.made = @ + 1], "err",
                         IF su THEN Append(app, <<rid, pl.rd.made + 1>>) ELSE app,
                         pl.err = EOF)
         ELSE ReadLoop(in, [pl.rd EXCEPT !.made = @ + 1],
                       OpenObj(CfgType(pl.fields[2]), su, fileID, rid, pl.rd.made),
                       IO_OBJ_BEGIN, su, fileID, rid,
                       IF su THEN Append(app, <<rid, pl.rd.made + 1>>) ELSE app)
    ELSE IF pl.fields # <<>> /\ pl.state = IO_OBJ_IN
    THEN IF Len(pl.fields) < 2 \/ co.nil
         THEN ReadResult(NilObj, ParseError(pl.rd), pl.rd, "novalue", app, pl.err = EOF)
         ELSE IF pl.err # NoErr
         THEN ReadResult(NilObj, pl.err, pl.rd, "err", app, pl.err = EOF)
         ELSE ReadLoop(in, pl.rd, Add(co, pl.fields[1], JoinFields(pl.fields, 2)),
                       prevState, su, fileID, rid, app)
    ELSE IF pl.fields # <<>> /\ pl.state = IO_OBJ_END
    THEN ReadResult(co, NoErr, pl.rd, "end", app, pl.err = EOF)
    ELSE IF pl.fields # <<>>
    THEN ReadResult(NilObj, ParseError(pl.rd), pl.rd, "default", app, pl.err = EOF)
    ELSE IF pl.err # NoErr
    THEN ReadResult(NilObj, pl.err, pl.rd, "err", app, pl.err = EOF)
    ELSE ReadLoop(in, pl.rd, co, prevState, su, fileID, rid, app)

\* Read, lines 302-348: the loop over parseLine; pl is what parseLine returned.
\* fields[1] of the source is fields[2] here (sequences are 1-based).
ReadLine(in, pl, co, prevState, su, fileID, rid, app) ==
    IF pl.fields # <<>> /\ pl.state = IO_OBJ_BEGIN
    THEN IF prevState # IO_OBJ_OUT
         THEN ReadLoop(in, pl.rd, co, prevState, su, fileID, rid, app)
         ELSE IF Len(pl.fields) < 2
         THEN ReadResult(NilObj, Panic, pl.rd, "panic", app, pl.err = EOF)
         ELSE IF CfgType(pl.fields[2]) = T_INVALID
         THEN ReadResult(NilObj, ParseError(pl.rd), pl.rd, "badtype", app, pl.err = EOF)
         ELSE IF pl.err # NoErr
         THEN ReadResult(NilObj, pl.err, [pl.rd EXCEPT !.made = @ + 1], "err",
                         IF su THEN Append(app, <<rid, pl.rd.made + 1>>) ELSE app,
                         pl.err = EOF)
         ELSE ReadLoop(in, [pl.rd EXCEPT !.made = @ + 1],
                       OpenObj(CfgType(pl.fields[2]), su, fileID, rid, pl.rd.made),
                       IO_OBJ_BEGIN, su, fileID, rid,
                       IF su THEN Append(app, <<rid, pl.rd.made + 1>>) ELSE app)
    ELSE IF pl.fields # <<>> /\ pl.state = IO_OBJ_IN
    THEN IF Len(pl.fields) < 2 \/ co.nil
         THEN ReadLoop(in, pl.rd, co, prevState, su, fileID, rid, app)
         ELSE IF pl.err # NoErr
         THEN ReadResult(NilObj, pl.err, pl.rd, "err", app, pl.err = EOF)
         ELSE ReadLoop(in, pl.rd, Add(co, pl.fields[1], JoinFields(pl.fields, 2)),
                       prevState, su, fileID, rid, app)
    ELSE IF pl.fields # <<>> /\ pl.state = IO_OBJ_END
    THEN ReadResult(co, NoErr, pl.rd, "end", app, pl.err = EOF)
    ELSE IF pl.fields # <<>>
    THEN ReadResult(NilObj, ParseError(pl.rd), pl.rd, "default", app, pl.err = EOF)
    ELSE IF pl.err # NoErr
    THEN ReadResult(NilObj, pl.err, pl.rd, "err", app, pl.err = EOF)
    ELSE ReadLoop(in, pl.rd, co, prevState, su, fileID, rid, app)

ReadLoop(in, r, co, prevState, su, fileID, rid, app) ==
    ReadLine(in, parseLine(in, r), co, prevState, su, fileID, rid, app)

\* Reader.Read(setUUID, fileID) on the reader rid whose stream is in.
Read(in, r, su, fileID, rid) ==
    ReadLoop(in, r, NilObj, IO_OBJ_OUT, su, fileID, rid, <<>>)

\* NewReader: the Reader before its first Read.
NewReader ==
    [pos |-> 0, line |-> 0, inputline |-> 0, column |-> 0, made |-> 0,
     ioerr |-> "none", failAt |-> 0]

\* NewReader over a stream whose read at offset at fails, once or always.
FailingReader(mode, at) == [NewReader EXCEPT !.ioerr = mode, !.failAt = at]

(***************************************************************************)
(* The inputs of the Reader: up to MaxLines physical lines taken from      *)
(* Lines, then one last line without a newline taken from Tails.           *)
(***************************************************************************)

MaxLines == 3

\* kind is what the line is in the input format; typ, key and vals are the
\* type name, the key and the value tokens it was written from.
Line(text, kind, typ, key, vals) ==
    [text |-> text, kind |-> kind, typ |-> typ, key |-> key, vals |-> vals]

Lines == <<
    Line("define service{\n", "header", "service", "", <<>>),
    Line("define host {\n", "header", "host", "", <<>>),
    Line("define bogus{\n", "header", "bogus", "", <<>>),
    Line("  host_name h1\n", "prop", "", "host_name", <<"h1">>),
    Line("\tcheck_command a  b\tc \n", "prop", "", "check_command", <<"a", "b", "c">>),
    Line("  alias x y\r\n", "prop", "", "alias", <<"x", "y">>),
    Line("  notes\n", "short", "", "notes", <<>>),
    Line("}\n", "close", "", "", <<>>),
    Line("# c {} k v\n", "comment", "", "", <<>>),
    Line(" \n", "blank", "", "", <<>>),
    Line("define{\n", "header", "", "", <<>>),
    Line("  alias z\n", "prop", "", "alias", <<"z">>) >>

Tails == <<
    Line("", "none", "", "", <<>>),
    Line("\t}", "close", "", "", <<>>),
    Line("  ", "blank", "", "", <<>>),
    Line(" host_name h1", "prop", "", "host_name", <<"h1">>) >>

\* The sequences over 1..n of length at most k.
RECURSIVE SeqsUpTo(_, _)
SeqsUpTo(n, k) ==
    IF k = 0 THEN {<<>>}
    ELSE LET shorter == SeqsUpTo(n, k - 1)
         IN  shorter \cup {Append(s, i) : s \in shorter, i \in 1..n}

RECURSIVE Cat(_)
Cat(ls) == IF ls = <<>> THEN "" ELSE Lines[Head(ls)].text \o Cat(Tail(ls))

\* The file identity the caller passes to Read, and the reader's identity.
TheFileID == "/dev/null"
TheReader == 1

\* The values of the variables of the parts that a specification leaves out.
ReadIdle ==
    /\ lines = <<>>
    /\ tail = 1
    /\ input = ""
    /\ rd = NewReader
    /\ rets = <<>>

MergeIdle ==
    /\ mfr = <<>>
    /\ mainPc = "ret"
    /\ adPc = <<>>
    /\ adObj = <<>>
    /\ adSnap = <<>>
    /\ fcs = <<>>
    /\ rlPc = <<>>
    /\ rlV = <<>>
    /\ wg = 0
    /\ wtPc = "done"
    /\ out = [closed |-> TRUE, panicked |-> FALSE]
    /\ consPc = "done"
    /\ got = <<>>

WriteIdle ==
    /\ cm = <<>>
    /\ wPc = "ret"
    /\ tasks = <<>>
    /\ files = <<>>
    /\ schan = [closed |-> TRUE, panicked |-> FALSE]
    /\ wwg = 0
    /\ wwtPc = "done"
    /\ errcnt = 0
    /\ wret = [isNil |-> TRUE, count |-> 0]

PrintIdle ==
    /\ pin = ""
    /\ pobj = NilObj
    /\ indent = 0
    /\ align = 0
    /\ printed = ""
    /\ pret = [obj |-> NilObj, err |-> NoErr]
    /\ sorted = <<>>
    /\ pPc = "done"

ReadInit ==
    /\ lines \in SeqsUpTo(Len(Lines), MaxLines)
    /\ tail \in 1..Len(Tails)
    /\ input = Cat(lines) \o Tails[tail].text
    /\ rd = NewReader
    /\ setUUID = TRUE
    /\ uuidorder = <<>>
    /\ rets = <<>>
    /\ MergeIdle
    /\ WriteIdle
    /\ PrintIdle

\* The caller's loop: it calls Read again until Read returns io.EOF (or the
\* process has panicked).
CallRead ==
    /\ IF rets = <<>> THEN TRUE ELSE rets[Len(rets)].err.kind \notin {"EOF", "panic"}
    /\ \E res \in {Read(input, rd, setUUID, TheFileID, TheReader)} :
           /\ rd' = res.rd
           /\ uuidorder' = uuidorder \o res.appended
           /\ rets' = Append(rets, [obj |-> res.obj, err |-> res.err, site |-> res.site,
                                    atEOF |-> res.atEOF, pos |-> res.rd.pos])
    /\ UNCHANGED <<pvars, lines, tail, input, setUUID, mvars, wvars>>

ReadNext == CallRead

ReadSpec == ReadInit /\ [][ReadNext]_vars

(***************************************************************************)
(* Read over a stream of which one read fails with an I/O error while the  *)
(* field scanner is inside a line.                                         *)
(***************************************************************************)

\* The blocks read from the failing stream.
IoReadLines == {<<1, 4, 8>>, <<2, 6, 8>>, <<1, 5, 8>>}

\* The offsets of the stream in at which a read is made by parseFields and not
\* by parseLine, line 260: those that follow a rune after which no call to
\* parseLine starts (a newline or a brace that ends a line class).
ScannerOffsets(in) ==
    {p \in 1..(Len(in) - 1) : SubSeq(in, p, p) \notin {"\n", "{", "}"}}

IoReadInit ==
    /\ lines \in IoReadLines
    /\ tail = 1
    /\ input = Cat(lines)
    /\ rd \in {FailingReader("once", p) : p \in ScannerOffsets(input)}
    /\ setUUID = TRUE
    /\ uuidorder = <<>>
    /\ rets = <<>>
    /\ MergeIdle
    /\ WriteIdle
    /\ PrintIdle

IoReadSpec == IoReadInit /\ [][ReadNext]_vars

(***************************************************************************)
(* MultiFileReader.ReadChan: one adapter task (Reader.ReadChan) and one    *)
(* relay task (output) per source, one task that waits for the relays and  *)
(* closes the merged channel, and the consumer that ranges over it.        *)
(***************************************************************************)

MaxSources == 2

MaxRetries == 4

\* The capacity of objchan.
ObjChanCap == 2

\* The absolute paths of the files of a MultiFileReader: AbsPath() of source i.
Paths == <<"/etc/a.cfg", "/etc/b.cfg", "/etc/c.cfg", "/etc/d.cfg">>

\* The contents of the files: two blocks; a header of unknown type, its closing
\* line and one block; no block at all.
MergeInputs == {Cat(<<1, 4, 8, 2, 8>>), Cat(<<3, 8, 1, 4, 8>>), Cat(<<9>>)}

\* A file of three blocks, more than objchan holds.
LongInput == Cat(<<1, 8, 2, 4, 8, 1, 8>>)

Sources == 1..Len(mfr)

\* NewMultiFileReader over up to MaxSources files; the first may be the long one.
MultiFileReaders ==
    UNION {{[i \in 1..n |-> [in |-> ins[i], rd |-> NewReader, made |-> <<>>]] :
                ins \in {f \in [1..n -> MergeInputs \cup {LongInput}] :
                            \A i \in 2..n : f[i] # LongInput}} :
           n \in 0..MaxSources}

\* No value of uuidorder is loaded.
NoSnap == [loaded |-> FALSE, val |-> <<>>]

MergeInit ==
    /\ ReadIdle
    /\ WriteIdle
    /\ PrintIdle
    /\ setUUID = FALSE
    /\ uuidorder = <<>>
    /\ mfr \in MultiFileReaders
    /\ adPc = [i \in Sources |-> "idle"]
    /\ adObj = [i \in Sources |-> NilObj]
    /\ adSnap = [i \in Sources |-> NoSnap]
    /\ fcs = [i \in Sources |-> [buf |-> <<>>, closed |-> FALSE]]
    /\ rlPc = [i \in Sources |-> "idle"]
    /\ rlV = [i \in Sources |-> NilObj]
    /\ mainPc = "call"
    /\ wg = 0
    /\ wtPc = "idle"
    /\ out = [closed |-> FALSE, panicked |-> FALSE]
    /\ consPc = "recv"
    /\ got = <<>>

\* No task has panicked: src/io.go has no recover, so a panic in any task ends
\* the program and no task takes another step.
Running == \A i \in Sources : adPc[i] # "panic" /\ rlPc[i] # "panic"

\* MultiFileReader.ReadChan: every mfr[i].ReadChan(setUUID, fileID) starts its
\* adapter task, wg.Add(mfrlen), go output(c) for every channel, go the task
\* that waits and closes, return out.
MfrReadChan ==
    /\ Running
    /\ mainPc = "call"
    /\ adPc' = [i \in Sources |-> "read"]
    /\ wg' = wg + Len(mfr)
    /\ rlPc' = [i \in Sources |-> "recv"]
    /\ wtPc' = "wait"
    /\ mainPc' = "ret"
    /\ UNCHANGED <<adSnap, pvars, rvars, wvars, setUUID, uuidorder, mfr, adObj, fcs, rlV, out, consPc, got>>

\* Read, line 319, in the adapter of source i: uuidorder = append(uuidorder,
\* co.UUID) is a load of the shared slice and, later, a store of the longer
\* one, with no synchronization between the tasks. This is the load, taken
\* when the call to Read that the adapter is making will append.
AdapterLoad(i) ==
    /\ Running
    /\ adPc[i] = "read"
    /\ ~adSnap[i].loaded
    /\ Read(mfr[i].in, mfr[i].rd, setUUID, Paths[i], i).appended # <<>>
    /\ adSnap' = [adSnap EXCEPT ![i] = [loaded |-> TRUE, val |-> uuidorder]]
    /\ UNCHANGED <<pvars, rvars, wvars, setUUID, uuidorder, mfr, mainPc, adPc, adObj, fcs,
                   rlPc, rlV, wg, wtPc, out, consPc, got>>

\* AdapterRead whose loop ends, and closes objchan, on any error of Read and
\* not on io.EOF alone.
AdapterReadFailClosed(i) ==
    /\ Running
    /\ adPc[i] = "read"
    /\ mfr[i].rd.ioerr = "always" => mfr[i].rd.line < MaxRetries
    /\ \E res \in {Read(mfr[i].in, mfr[i].rd, setUUID, Paths[i], i)} :
           /\ IF res.appended = <<>>
              THEN uuidorder' = uuidorder
              ELSE /\ adSnap[i].loaded
                   /\ uuidorder' = adSnap[i].val \o res.appended
           /\ adSnap' = [adSnap EXCEPT ![i] = NoSnap]
           /\ IF res.err = NoErr /\ ~res.obj.nil
              THEN /\ mfr' = [mfr EXCEPT ![i].rd = res.rd,
                                         ![i].made = Append(@, res.obj)]
                   /\ adObj' = [adObj EXCEPT ![i] = res.obj]
                   /\ adPc' = [adPc EXCEPT ![i] = "send"]
                   /\ fcs' = fcs
              ELSE /\ mfr' = [mfr EXCEPT ![i].rd = res.rd]
                   /\ adObj' = adObj
                   /\ adPc' = [adPc EXCEPT ![i] =
                                  IF res.err = Panic THEN "panic"
                                  ELSE IF res.err # NoErr THEN "done"
                                  ELSE "read"]
                   /\ fcs' = [fcs EXCEPT ![i].closed = (res.err # NoErr /\ res.err # Panic)]
    /\ UNCHANGED <<pvars, rvars, wvars, setUUID, mainPc, rlPc, rlV, wg, wtPc, out, consPc, got>>

\* Reader.ReadChan, lines 358-370: one call to Read and what the loop does with
\* its result; on io.EOF the loop ends and objchan is closed. When the call
\* appends to uuidorder, it stores the value it loaded with the UUID appended.
\* Every retry on a stream that fails on every read adds one to the Reader's
\* line: the retries are followed up to line MaxRetries.
AdapterRead(i) ==
    /\ Running
    /\ adPc[i] = "read"
    /\ mfr[i].rd.ioerr = "always" => mfr[i].rd.line < MaxRetries
    /\ \E res \in {Read(mfr[i].in, mfr[i].rd, setUUID, Paths[i], i)} :
           /\ IF res.appended = <<>>
              THEN uuidorder' = uuidorder
              ELSE /\ adSnap[i].loaded
                   /\ uuidorder' = adSnap[i].val \o res.appended
           /\ adSnap' = [adSnap EXCEPT ![i] = NoSnap]
           /\ IF res.err = NoErr /\ ~res.obj.nil
              THEN /\ mfr' = [mfr EXCEPT ![i].rd = res.rd,
                                         ![i].made = Append(@, res.obj)]
                   /\ adObj' = [adObj EXCEPT ![i] = res.obj]
                   /\ adPc' = [adPc EXCEPT ![i] = "send"]
                   /\ fcs' = fcs
              ELSE /\ mfr' = [mfr EXCEPT ![i].rd = res.rd]
                   /\ adObj' = adObj
                   /\ adPc' = [adPc EXCEPT ![i] =
                                  IF res.err = EOF THEN "done"
                                  ELSE IF res.err = Panic THEN "panic"
                                  ELSE "read"]
                   /\ fcs' = [fcs EXCEPT ![i].closed = (res.err = EOF)]
    /\ UNCHANGED <<pvars, rvars, wvars, setUUID, mainPc, rlPc, rlV, wg, wtPc, out, consPc, got>>

\* Line 360: objchan <- obj, which waits while the buffer is full.
AdapterSend(i) ==
    /\ Running
    /\ adPc[i] = "send"
    /\ Len(fcs[i].buf) < ObjChanCap
    /\ fcs' = [fcs EXCEPT ![i].buf = Append(@, adObj[i])]
    /\ adObj' = [adObj EXCEPT ![i] = NilObj]
    /\ adPc' = [adPc EXCEPT ![i] = "read"]
    /\ UNCHANGED <<adSnap, pvars, rvars, wvars, setUUID, uuidorder, mfr, mainPc, rlPc, rlV, wg, wtPc, out,
                   consPc, got>>

\* RelayRecv that takes any buffered object, not the oldest.
RelayRecvAny(i) ==
    /\ Running
    /\ rlPc[i] = "recv"
    /\ fcs[i].buf # <<>>
    /\ \E n \in 1..Len(fcs[i].buf) :
           /\ rlV' = [rlV EXCEPT ![i] = fcs[i].buf[n]]
           /\ fcs' = [fcs EXCEPT ![i].buf =
                         SubSeq(@, 1, n - 1) \o SubSeq(@, n + 1, Len(@))]
    /\ rlPc' = [rlPc EXCEPT ![i] = "send"]
    /\ UNCHANGED <<adSnap, pvars, rvars, wvars, setUUID, uuidorder, mfr, mainPc, adPc, adObj, wtPc, out,
                   consPc, got, wg>>

\* RelayRecv of relays that take their turn: relay i receives only when every
\* relay before it has returned.
RelayRecvInTurn(i) ==
    /\ Running
    /\ rlPc[i] = "recv"
    /\ \A j \in 1..(i - 1) : rlPc[j] = "done"
    /\ IF fcs[i].buf # <<>>
       THEN /\ rlV' = [rlV EXCEPT ![i] = Head(fcs[i].buf)]
            /\ fcs' = [fcs EXCEPT ![i].buf = Tail(@)]
            /\ rlPc' = [rlPc EXCEPT ![i] = "send"]
            /\ wg' = wg
       ELSE /\ fcs[i].closed
            /\ rlPc' = [rlPc EXCEPT ![i] = "done"]
            /\ wg' = wg - 1
            /\ UNCHANGED <<rlV, fcs>>
    /\ UNCHANGED <<adSnap, pvars, rvars, wvars, setUUID, uuidorder, mfr, mainPc, adPc, adObj, wtPc, out,
                   consPc, got>>

\* Lines 382-383: for v := range c; when c is closed and drained the relay
\* returns and its deferred wg.Done() runs.
RelayRecv(i) ==
    /\ Running
    /\ rlPc[i] = "recv"
    /\ IF fcs[i].buf # <<>>
       THEN /\ rlV' = [rlV EXCEPT ![i] = Head(fcs[i].buf)]
            /\ fcs' = [fcs EXCEPT ![i].buf = Tail(@)]
            /\ rlPc' = [rlPc EXCEPT ![i] = "send"]
            /\ wg' = wg
       ELSE /\ fcs[i].closed
            /\ rlPc' = [rlPc EXCEPT ![i] = "done"]
            /\ wg' = wg - 1
            /\ UNCHANGED <<rlV, fcs>>
    /\ UNCHANGED <<adSnap, pvars, rvars, wvars, setUUID, uuidorder, mfr, mainPc, adPc, adObj, wtPc, out,
                   consPc, got>>

\* RelaySend as the select with a default case that lines 385-391 keep in a
\* comment: when the consumer does not take the object at once, the relay logs
\* and returns.
RelaySendOrDrop(i) ==
    /\ Running
    /\ rlPc[i] = "send"
    /\ ~out.closed
    /\ \E taken \in BOOLEAN :
           IF taken
           THEN /\ mainPc = "ret"
                /\ consPc = "recv"
                /\ got' = Append(got, rlV[i])
                /\ rlV' = [rlV EXCEPT ![i] = NilObj]
                /\ rlPc' = [rlPc EXCEPT ![i] = "recv"]
                /\ wg' = wg
           ELSE /\ rlPc' = [rlPc EXCEPT ![i] = "done"]
                /\ wg' = wg - 1
                /\ UNCHANGED <<got, rlV>>
    /\ UNCHANGED <<adSnap, pvars, rvars, wvars, setUUID, uuidorder, mfr, mainPc, adPc, adObj, fcs, wtPc,
                   out, consPc>>

\* Line 384: out <- v. out is unbuffered: the send completes when the consumer
\* receives; a send on a closed channel panics.
RelaySend(i) ==
    /\ Running
    /\ rlPc[i] = "send"
    /\ IF out.closed
       THEN /\ out' = [out EXCEPT !.panicked = TRUE]
            /\ rlPc' = [rlPc EXCEPT ![i] = "panic"]
            /\ UNCHANGED <<rlV, got>>
       ELSE /\ mainPc = "ret"
            /\ consPc = "recv"
            /\ got' = Append(got, rlV[i])
            /\ rlV' = [rlV EXCEPT ![i] = NilObj]
            /\ rlPc' = [rlPc EXCEPT ![i] = "recv"]
            /\ out' = out
    /\ UNCHANGED <<adSnap, pvars, rvars, wvars, setUUID, uuidorder, mfr, mainPc, adPc, adObj, fcs, wg,
                   wtPc, consPc>>

\* WaiterClose that closes out without waiting for the relays.
WaiterCloseNoWait ==
    /\ Running
    /\ wtPc = "wait"
    /\ out' = [out EXCEPT !.closed = TRUE]
    /\ wtPc' = "done"
    /\ UNCHANGED <<adSnap, pvars, rvars, wvars, setUUID, uuidorder, mfr, mainPc, adPc, adObj, fcs, rlPc,
                   rlV, wg, consPc, got>>

\* Lines 412-413: wg.Wait() returns when the counter is zero; close(out).
WaiterClose ==
    /\ Running
    /\ wtPc = "wait"
    /\ wg = 0
    /\ out' = [out EXCEPT !.closed = TRUE]
    /\ wtPc' = "done"
    /\ UNCHANGED <<adSnap, pvars, rvars, wvars, setUUID, uuidorder, mfr, mainPc, adPc, adObj, fcs, rlPc,
                   rlV, wg, consPc, got>>

\* The consumer's range over the merged channel ends when it is closed.
ConsumerDone ==
    /\ Running
    /\ mainPc = "ret"
    /\ consPc = "recv"
    /\ out.closed
    /\ consPc' = "done"
    /\ UNCHANGED <<adSnap, pvars, rvars, wvars, setUUID, uuidorder, mfr, mainPc, adPc, adObj, fcs, rlPc,
                   rlV, wg, wtPc, out, got>>

MergeNext ==
    \/ MfrReadChan
    \/ \E i \in Sources : AdapterRead(i)
    \/ \E i \in Sources : AdapterSend(i)
    \/ \E i \in Sources : RelayRecv(i)
    \/ \E i \in Sources : RelaySend(i)
    \/ WaiterClose
    \/ ConsumerDone

MergeSpec == MergeInit /\ [][MergeNext]_vars

\* ENABLED <<AdapterRead(i)>>_vars, written out: the adapter of source i is at
\* its call to Read, the retries on a stream that always fails are not used
\* up, and a call that appends to uuidorder has loaded it. Every call to Read
\* changes the Reader, so every step of AdapterRead changes vars.
AdapterReadEnabled(i) ==
    /\ Running
    /\ i \in Sources
    /\ adPc[i] = "read"
    /\ mfr[i].rd.ioerr = "always" => mfr[i].rd.line < MaxRetries
    /\ (setUUID /\ ~adSnap[i].loaded) =>
           Read(mfr[i].in, mfr[i].rd, setUUID, Paths[i], i).appended = <<>>

\* The scheduler runs every task that can take a step, and the consumer keeps
\* receiving. The conjunct of AdapterRead is WF_vars(AdapterRead(i)) with its
\* enabling condition written as AdapterReadEnabled(i).
MergeFairness ==
    /\ WF_vars(MfrReadChan)
    /\ \A i \in 1..Len(Paths) :
           /\ []<>(~AdapterReadEnabled(i)) \/ []<><<i \in Sources /\ AdapterRead(i)>>_vars
           /\ WF_vars(i \in Sources /\ AdapterSend(i))
           /\ WF_vars(i \in Sources /\ RelayRecv(i))
           /\ WF_vars(i \in Sources /\ RelaySend(i))
    /\ WF_vars(WaiterClose)
    /\ WF_vars(ConsumerDone)

(***************************************************************************)
(* MultiFileReader.ReadChan over files of which the first may fail with an *)
(* I/O error, once or on every read, at its start or inside a block.       *)
(***************************************************************************)

\* One block; a header of unknown type, its closing line and one block.
IoInputs == {Cat(<<1, 4, 8>>), Cat(<<3, 8, 2, 8>>)}

\* The Readers of the first file: one whose stream does not fail, and those
\* whose stream fails at offset 0 or inside the text, once or always.
IoReaders ==
    {NewReader} \cup
        {FailingReader(mode, at) : mode \in {"once", "always"}, at \in {0, 2 * Len(" host_name")}}

IoMultiFileReaders ==
    UNION {{[i \in 1..n |-> [in |-> ins[i], rd |-> IF i = 1 THEN r ELSE NewReader,
                             made |-> <<>>]] :
                ins \in [1..n -> IoInputs], r \in IoReaders} :
           n \in 1..MaxSources}

\* The state of MultiFileReader.ReadChan before the call, for the readers m.
MergeStart(m) ==
    /\ ReadIdle
    /\ WriteIdle
    /\ PrintIdle
    /\ uuidorder = <<>>
    /\ mfr = m
    /\ adPc = [i \in Sources |-> "idle"]
    /\ adObj = [i \in Sources |-> NilObj]
    /\ adSnap = [i \in Sources |-> NoSnap]
    /\ fcs = [i \in Sources |-> [buf |-> <<>>, closed |-> FALSE]]
    /\ rlPc = [i \in Sources |-> "idle"]
    /\ rlV = [i \in Sources |-> NilObj]
    /\ mainPc = "call"
    /\ wg = 0
    /\ wtPc = "idle"
    /\ out = [closed |-> FALSE, panicked |-> FALSE]
    /\ consPc = "recv"
    /\ got = <<>>

IoMergeInit ==
    /\ setUUID = FALSE
    /\ \E m \in IoMultiFileReaders : MergeStart(m)

IoMergeSpec == IoMergeInit /\ [][MergeNext]_vars

FairIoMergeSpec == IoMergeSpec /\ MergeFairness

(***************************************************************************)
(* MultiFileReader.ReadChan over files whose streams end with io.EOF and   *)
(* hold malformed lines.                                                   *)
(***************************************************************************)

\* A header of unknown type, its closing line and one block; a header with one
\* field; a block and a last line of blanks.
LiveInputs == {Cat(<<3, 8, 1, 8>>), Cat(<<11>>), Cat(<<2, 8>>) \o Tails[3].text}

LiveMultiFileReaders ==
    UNION {{[i \in 1..n |-> [in |-> ins[i], rd |-> NewReader, made |-> <<>>]] :
                ins \in [1..n -> LiveInputs]} :
           n \in 0..MaxSources}

LiveMergeInit ==
    /\ setUUID = FALSE
    /\ \E m \in LiveMultiFileReaders : MergeStart(m)

FairLiveMergeSpec == LiveMergeInit /\ [][MergeNext]_vars /\ MergeFairness

(***************************************************************************)
(* MultiFileReader.ReadChan(setUUID = true): every adapter's Read appends  *)
(* to the one uuidorder.                                                   *)
(***************************************************************************)

\* One block; two blocks.
LedgerInputs == {Cat(<<1, 8>>), Cat(<<1, 8, 2, 8>>)}

LedgerMultiFileReaders ==
    UNION {{[i \in 1..n |-> [in |-> ins[i], rd |-> NewReader, made |-> <<>>]] :
                ins \in [1..n -> LedgerInputs]} :
           n \in 1..MaxSources}

LedgerInit ==
    /\ setUUID = TRUE
    /\ \E m \in LedgerMultiFileReaders : MergeStart(m)

LedgerNext ==
    \/ MergeNext
    \/ \E i \in Sources : AdapterLoad(i)

LedgerSpec == LedgerInit /\ [][LedgerNext]_vars

(***************************************************************************)
(* CfgMap.WriteByFileID: one writer task per origin file, one task that    *)
(* waits for them and closes the results channel, and the caller, which    *)
(* ranges over the results channel and counts the errors.                  *)
(***************************************************************************)

MaxObjs == 3

\* The origin files the objects of a CfgMap were read from.
WriteFiles == {Paths[1], Paths[2]}

\* The CfgMaps of up to MaxObjs objects, each stamped with one of WriteFiles.
CfgMaps ==
    UNION {{[k \in 1..n |->
                [NewCfgObjWithUUID("service", <<0, k>>, <<0, k>>) EXCEPT !.FileID = f[k]]] :
                f \in [1..n -> WriteFiles]} : n \in 0..MaxObjs}

\* The keys (UUIDs) k..Len(m) of m whose object has FileID f, ascending.
RECURSIVE KeysOf(_, _, _)
KeysOf(m, f, k) ==
    IF k > Len(m) THEN <<>>
    ELSE IF m[k].FileID = f THEN <<k>> \o KeysOf(m, f, k + 1)
    ELSE KeysOf(m, f, k + 1)

\* cm.SplitByFileID(sort): per origin file, the keys of its objects.
SplitByFileID(m) == [f \in {m[k].FileID : k \in DOMAIN m} |-> KeysOf(m, f, 1)]

\* The elements of a set in some order (the order a range over a map takes).
RECURSIVE SeqOf(_)
SeqOf(S) ==
    IF S = {} THEN <<>>
    ELSE <<CHOOSE x \in S : TRUE>> \o SeqOf(S \ {CHOOSE x \in S : TRUE})

NewTask(filename) ==
    [file |-> filename, pc |-> "create", err |-> FALSE, fail |-> "none", sent |-> 0]

\* Lines 621-639: for fname := range fmap { wg.Add(1); go func(filename) {...}(fname) }
StartTasks(fmap) == [t \in 1..Cardinality(DOMAIN fmap) |-> NewTask(SeqOf(DOMAIN fmap)[t])]

WriteInit ==
    /\ ReadIdle
    /\ MergeIdle
    /\ PrintIdle
    /\ setUUID = FALSE
    /\ uuidorder = <<>>
    /\ cm \in CfgMaps
    /\ wPc = "call"
    /\ tasks = <<>>
    /\ files = [f \in WriteFiles |-> [exists |-> FALSE, content |-> <<>>]]
    /\ schan = [closed |-> FALSE, panicked |-> FALSE]
    /\ wwg = 0
    /\ wwtPc = "idle"
    /\ errcnt = 0
    /\ wret = [isNil |-> TRUE, count |-> 0]

\* WriteByFileID, lines 607-646: split the map, start the writer tasks and the
\* task that waits and closes, and go on to range over schan.
WriteCall ==
    /\ wPc = "call"
    /\ tasks' = StartTasks(SplitByFileID(cm))
    /\ wwg' = wwg + Len(tasks')
    /\ wwtPc' = "wait"
    /\ wPc' = "collect"
    /\ UNCHANGED <<pvars, rvars, mvars, setUUID, uuidorder, cm, files, schan, errcnt, wret>>

\* TaskCreate that returns without sending err when os.Create fails.
TaskCreateNoSend(t) ==
    /\ t \in DOMAIN tasks
    /\ tasks[t].pc = "create"
    /\ \E ok \in BOOLEAN :
           IF ok
           THEN /\ files' = [files EXCEPT ![tasks[t].file] =
                                 [exists |-> TRUE, content |-> <<>>]]
                /\ tasks' = [tasks EXCEPT ![t].pc = "write"]
                /\ wwg' = wwg
           ELSE /\ tasks' = [tasks EXCEPT ![t].pc = "done", ![t].fail = "create"]
                /\ wwg' = wwg - 1
                /\ files' = files
    /\ UNCHANGED <<pvars, rvars, mvars, setUUID, uuidorder, cm, wPc, schan, wwtPc, errcnt, wret>>

\* Lines 625-630: os.Create(filename) makes the file empty, or fails (then the
\* task is about to send err).
TaskCreate(t) ==
    /\ t \in DOMAIN tasks
    /\ tasks[t].pc = "create"
    /\ \E ok \in BOOLEAN :
           IF ok
           THEN /\ files' = [files EXCEPT ![tasks[t].file] =
                                 [exists |-> TRUE, content |-> <<>>]]
                /\ tasks' = [tasks EXCEPT ![t].pc = "write"]
                /\ wwg' = wwg
           ELSE /\ tasks' = [tasks EXCEPT ![t].pc = "send", ![t].err = TRUE,
                                          ![t].fail = "create"]
                /\ UNCHANGED <<files, wwg>>
    /\ UNCHANGED <<pvars, rvars, mvars, setUUID, uuidorder, cm, wPc, schan, wwtPc, errcnt, wret>>

\* What printing the objects with the keys us leaves in a file.
Printed(m, us) == [i \in 1..Len(us) |-> m[us[i]]]

\* TaskWrite that prints every object of cm, not those of fmap[filename].
TaskWriteAll(t) ==
    /\ t \in DOMAIN tasks
    /\ tasks[t].pc = "write"
    /\ files' = [files EXCEPT ![tasks[t].file].content = cm]
    /\ tasks' = [tasks EXCEPT ![t].pc = "send", ![t].err = FALSE]
    /\ UNCHANGED <<pvars, rvars, mvars, setUUID, uuidorder, cm, wPc, schan, wwg, wwtPc, errcnt,
                   wret>>

\* Lines 631-637: print the objects of fmap[filename] to the buffered writer and
\* w.Flush(). The writes reach the file or fail (nothing reaches it); the error
\* of Flush is dropped and the task is about to send nil.
TaskWrite(t) ==
    /\ t \in DOMAIN tasks
    /\ tasks[t].pc = "write"
    /\ \E ok \in BOOLEAN :
           /\ files' = [files EXCEPT ![tasks[t].file].content =
                           IF ok THEN Printed(cm, SplitByFileID(cm)[tasks[t].file])
                           ELSE <<>>]
           /\ tasks' = [tasks EXCEPT ![t].pc = "send", ![t].err = FALSE,
                                     ![t].fail = IF ok THEN "none" ELSE "write"]
    /\ UNCHANGED <<pvars, rvars, mvars, setUUID, uuidorder, cm, wPc, schan, wwg, wwtPc, errcnt,
                   wret>>

\* Lines 627 and 637 with 647-652: schan is unbuffered, so the send completes
\* when the caller receives in its range loop, which counts a non-nil error;
\* the task then returns and its deferred wg.Done() runs. A send on a closed
\* channel panics.
TaskSend(t) ==
    /\ t \in DOMAIN tasks
    /\ tasks[t].pc = "send"
    /\ IF schan.closed
       THEN /\ schan' = [schan EXCEPT !.panicked = TRUE]
            /\ tasks' = [tasks EXCEPT ![t].pc = "panic"]
            /\ UNCHANGED <<errcnt, wwg>>
       ELSE /\ wPc = "collect"
            /\ errcnt' = IF tasks[t].err THEN errcnt + 1 ELSE errcnt
            /\ tasks' = [tasks EXCEPT ![t].pc = "done", ![t].sent = @ + 1]
            /\ wwg' = wwg - 1
            /\ schan' = schan
    /\ UNCHANGED <<pvars, rvars, mvars, setUUID, uuidorder, cm, wPc, files, wwtPc, wret>>

\* Lines 641-644: wg.Wait() returns when the counter is zero; close(schan).
WriteWaiter ==
    /\ wwtPc = "wait"
    /\ wwg = 0
    /\ schan' = [schan EXCEPT !.closed = TRUE]
    /\ wwtPc' = "done"
    /\ UNCHANGED <<pvars, rvars, mvars, setUUID, uuidorder, cm, wPc, tasks, files, wwg, errcnt,
                   wret>>

\* Lines 647-658: the range over schan ends when it is closed; return the
\* error that carries errcnt, or nil.
CollectEnd ==
    /\ wPc = "collect"
    /\ schan.closed
    /\ wret' = IF errcnt > 0 THEN [isNil |-> FALSE, count |-> errcnt]
               ELSE [isNil |-> TRUE, count |-> 0]
    /\ wPc' = "ret"
    /\ UNCHANGED <<pvars, rvars, mvars, setUUID, uuidorder, cm, tasks, files, schan, wwg, wwtPc,
                   errcnt>>

\* The writer tasks there can be.
TaskIds == 1..Cardinality(WriteFiles)

WriteNext ==
    \/ WriteCall
    \/ \E t \in TaskIds : TaskCreate(t)
    \/ \E t \in TaskIds : TaskWrite(t)
    \/ \E t \in TaskIds : TaskSend(t)
    \/ WriteWaiter
    \/ CollectEnd

WriteSpec == WriteInit /\ [][WriteNext]_vars

\* Every started task that can take a step eventually takes one.
WriteFairness ==
    /\ WF_vars(WriteCall)
    /\ \A t \in TaskIds : WF_vars(TaskCreate(t))
    /\ \A t \in TaskIds : WF_vars(TaskWrite(t))
    /\ \A t \in TaskIds : WF_vars(TaskSend(t))
    /\ WF_vars(WriteWaiter)
    /\ WF_vars(CollectEnd)

FairWriteSpec == WriteInit /\ [][WriteNext]_vars /\ WriteFairness

(***************************************************************************)
(* CfgObj.Print and CfgObj.PrintPropsSorted, applied to an object that     *)
(* Read returned; what Print wrote is read again.                          *)
(***************************************************************************)

MaxProps == 2

\* strings.Repeat(" ", n)
RECURSIVE Spaces(_)
Spaces(n) ==
    IF n <= 0 THEN ""
    ELSE IF n = 1 THEN " "
    ELSE Spaces(n \div 2) \o Spaces(n - (n \div 2))

\* fmt's verb %-<n>s: str, padded on the right to the width n, never cut.
PadRight(str, n) == str \o Spaces(n - Len(str))

\* The property lines objects are read from: a one-value and a three-value
\* line, a key of DEF_ALIGN runes, a value with braces that start beyond column
\* DEF_ALIGN, and two keys the ranking table does not hold.
PrintLines == <<
    "  host_name h1\n",
    "\tcheck_command a  b\tc \n",
    "  _owner_of_the_service_definition ops\n",
    PadRight("  command_line", DEF_ALIGN + 1) \o "a{b}\n",
    "  _a 1\n",
    "  _b 2\n" >>

\* The sequences of distinct elements of S of length 1..k.
RECURSIVE DistinctSeqs(_, _)
DistinctSeqs(S, k) ==
    IF k = 0 THEN {<<>>}
    ELSE LET shorter == DistinctSeqs(S, k - 1)
         IN  shorter \cup {Append(q, x) : q \in shorter, x \in S}

IsInjective(q) == \A i, j \in DOMAIN q : i # j => q[i] # q[j]

RECURSIVE CatPrintLines(_)
CatPrintLines(q) == IF q = <<>> THEN "" ELSE PrintLines[Head(q)] \o CatPrintLines(Tail(q))

\* One service block of 1..MaxProps property lines.
PrintInputs ==
    {"define service{\n" \o CatPrintLines(q) \o "}\n" :
         q \in {x \in DistinctSeqs(DOMAIN PrintLines, MaxProps) : x # <<>> /\ IsInjective(x)}}

\* The values of CfgObj.Indent.
Indents == {0, 4}

\* CfgObj.LongestKey(): the length of the longest key.
LongestKey(co) ==
    IF co.Props = {} THEN 0
    ELSE CHOOSE n \in {Len(p[1]) : p \in co.Props} :
             \A p \in co.Props : Len(p[1]) <= n

\* co.generateComment(): the comment line of the object. The name it quotes
\* after the type is left out.
GenerateComment(co) == "# " \o co.Type

\* The orders in which a range over the map co.Props may yield its entries.
IterationOrders(props) ==
    {q \in DistinctSeqs(props, Cardinality(props)) :
         Len(q) = Cardinality(props) /\ IsInjective(q)}

\* fmt.Fprintf(w, fstr, k, v) with fstr = prefix + "%-<al>s%s\n".
PropLine(prefix, al, kv) == prefix \o PadRight(kv[1], al) \o kv[2] \o "\n"

\* CfgObj.PrintProps over the iteration order.
RECURSIVE PrintProps(_, _, _)
PrintProps(order, prefix, al) ==
    IF order = <<>> THEN ""
    ELSE PropLine(prefix, al, Head(order)) \o PrintProps(Tail(order), prefix, al)

\* CfgObj.Print(w, false) of the object co with Indent ind and Align al.
CfgObjPrint(co, ind, al, order) ==
    GenerateComment(co) \o "\n"
        \o "define " \o co.Type \o "{\n"
        \o PrintProps(order, Spaces(ind), al)
        \o Spaces(ind) \o "}\n"

\* CfgKeySortOrder[k][t]: the rank of key k in objects of type t; the zero
\* value for a key the table does not hold.
CfgKeySortOrder(k, t) ==
    IF k = "host_name" THEN 1
    ELSE IF k = "check_command" THEN 2
    ELSE IF k = "command_line" THEN 3
    ELSE 0

\* PrintPropsSorted, lines 493-496: keypri after the range over co.Props in the
\* given order; a later key of the same rank replaces an earlier one.
KeyPri(order, t) ==
    [r \in {CfgKeySortOrder(order[i][1], t) : i \in DOMAIN order} |->
        LET last == CHOOSE i \in DOMAIN order :
                        /\ CfgKeySortOrder(order[i][1], t) = r
                        /\ \A j \in DOMAIN order :
                               CfgKeySortOrder(order[j][1], t) = r => j <= i
        IN  order[last]]

\* sort.Ints over the ranks in S.
RECURSIVE SortInts(_)
SortInts(S) ==
    IF S = {} THEN <<>>
    ELSE LET least == CHOOSE x \in S : \A y \in S : x <= y
         IN  <<least>> \o SortInts(S \ {least})

\* PrintPropsSorted: the <<key, value>> of each line written, in order.
PrintPropsSortedLines(keypri) ==
    [i \in 1..Cardinality(DOMAIN keypri) |-> keypri[SortInts(DOMAIN keypri)[i]]]

PrintPropsSorted(co, order) == PrintPropsSortedLines(KeyPri(order, co.Type))

PrintInit ==
    /\ ReadIdle
    /\ MergeIdle
    /\ WriteIdle
    /\ setUUID = FALSE
    /\ uuidorder = <<>>
    /\ pin \in PrintInputs
    /\ pobj = NilObj
    /\ indent \in Indents
    /\ align = DEF_ALIGN
    /\ printed = ""
    /\ pret = [obj |-> NilObj, err |-> NoErr]
    /\ sorted = <<>>
    /\ pPc = "read"

\* The object is read from pin; its Align is left as NewCfgObj set it or is set
\* to LongestKey() + 2.
PrintRead ==
    /\ pPc = "read"
    /\ \E res \in {Read(pin, NewReader, FALSE, TheFileID, TheReader)} :
           /\ pobj' = res.obj
           /\ \E a \in {DEF_ALIGN, LongestKey(res.obj) + 2} : align' = a
           /\ pPc' = IF res.obj.nil THEN "done" ELSE "print"
    /\ UNCHANGED <<rvars, mvars, wvars, setUUID, uuidorder, pin, indent, printed, pret,
                   sorted>>

\* co.Print(w, false): the properties in the order the range over the map
\* yields them.
PrintObj ==
    /\ pPc = "print"
    /\ \E order \in IterationOrders(pobj.Props) :
           printed' = CfgObjPrint(pobj, indent, align, order)
    /\ pPc' = "reread"
    /\ UNCHANGED <<rvars, mvars, wvars, setUUID, uuidorder, pin, pobj, indent, align, pret,
                   sorted>>

\* Read on what Print wrote.
PrintReread ==
    /\ pPc = "reread"
    /\ \E res \in {Read(printed, NewReader, FALSE, TheFileID, TheReader)} :
           pret' = [obj |-> res.obj, err |-> res.err]
    /\ pPc' = "sort"
    /\ UNCHANGED <<rvars, mvars, wvars, setUUID, uuidorder, pin, pobj, indent, align,
                   printed, sorted>>

\* One run of co.PrintPropsSorted; two runs are made.
PrintSorted ==
    /\ pPc = "sort"
    /\ \E order \in IterationOrders(pobj.Props) :
           sorted' = Append(sorted, PrintPropsSorted(pobj, order))
    /\ pPc' = IF Len(sorted) = 1 THEN "done" ELSE "sort"
    /\ UNCHANGED <<rvars, mvars, wvars, setUUID, uuidorder, pin, pobj, indent, align,
                   printed, pret>>

PrintNext == PrintRead \/ PrintObj \/ PrintReread \/ PrintSorted

PrintSpec == PrintInit /\ [][PrintNext]_vars

(***************************************************************************)
(* The line scanner on its own: parseLine called until the stream ends,    *)
(* over inputs whose last line holds a "{" inside a field.                 *)
(***************************************************************************)

\* What the stream holds before the line with the brace: nothing, a block
\* header, a block close, a header and a property, a comment, or a block
\* header on the same physical line.
BraceContexts ==
    {"", "define host{\n", "}\n", "define host{\n  alias x\n", "# c\n", "define host{"}

\* The widths the key of the brace line is padded to: the "{" that follows the
\* padded key and one rune of value comes at the columns around DEF_ALIGN.
BraceWidths == (DEF_ALIGN - 3)..(DEF_ALIGN + 2)

\* A property line whose value has a "{" as its second rune.
BraceLine(w) == PadRight("  k", w) \o "v{w\n"

ScanInit ==
    /\ lines = <<>>
    /\ tail = 1
    /\ input \in {ctx \o BraceLine(w) : ctx \in BraceContexts, w \in BraceWidths}
    /\ rd = NewReader
    /\ setUUID = FALSE
    /\ uuidorder = <<>>
    /\ rets = <<>>
    /\ MergeIdle
    /\ WriteIdle
    /\ PrintIdle

\* One call to parseLine, as Read's loop makes them, until one returns an
\* error; what it returned is recorded with the offsets it started and ended
\* at.
CallParseLine ==
    /\ IF rets = <<>> THEN TRUE ELSE rets[Len(rets)].err = NoErr
    /\ \E pl \in {parseLine(input, rd)} :
           /\ rd' = pl.rd
           /\ rets' = Append(rets, [fields |-> pl.fields, state |-> pl.state,
                                    err |-> pl.err, from |-> rd.pos, pos |-> pl.rd.pos,
                                    column |-> pl.rd.column])
    /\ UNCHANGED <<pvars, lines, tail, input, setUUID, uuidorder, mvars, wvars>>

ScanNext == CallParseLine

ScanSpec == ScanInit /\ [][ScanNext]_vars

(***************************************************************************)
(* Properties                                                              *)
(***************************************************************************)

\* The value tokens vals joined with single spaces.
RECURSIVE Spaced(_)
Spaced(vals) ==
    IF Len(vals) = 1 THEN vals[1] ELSE vals[1] \o " " \o Spaced(Tail(vals))

\* The lines of the body of the block, when the input is exactly one
\* well-formed block: a header of a known type, property lines with distinct
\* keys, and a closing line (the last of lines, or the unterminated last line).
BlockBody ==
    IF Tails[tail].kind = "close" THEN SubSeq(lines, 2, Len(lines))
    ELSE SubSeq(lines, 2, Len(lines) - 1)

OneWellFormedBlock ==
    /\ Len(lines) >= 1
    /\ Lines[lines[1]].kind = "header"
    /\ Lines[lines[1]].typ \in KnownTypes
    /\ \/ Tails[tail].kind = "close"
       \/ /\ Tails[tail].kind = "none"
          /\ Len(lines) >= 2
          /\ Lines[lines[Len(lines)]].kind = "close"
    /\ \A i \in DOMAIN BlockBody : Lines[BlockBody[i]].kind = "prop"
    /\ \A i, j \in DOMAIN BlockBody :
           i # j => Lines[BlockBody[i]].key # Lines[BlockBody[j]].key

\* C1: when the input is exactly one well-formed block, the first call to Read
\* returns, with a nil error, an object of the declared type whose property map
\* holds exactly each key with its values joined by single spaces, and the
\* second call returns io.EOF with no object.
C1_OneBlockThenEOF ==
    OneWellFormedBlock =>
        /\ Len(rets) >= 1 =>
               /\ rets[1].err = NoErr
               /\ ~rets[1].obj.nil
               /\ rets[1].obj.Type = Lines[lines[1]].typ
               /\ rets[1].obj.Props =
                      {<<Lines[BlockBody[i]].key, Spaced(Lines[BlockBody[i]].vals)>> :
                           i \in DOMAIN BlockBody}
        /\ Len(rets) >= 2 => rets[2].err = EOF /\ rets[2].obj.nil

\* A block with two property lines, one of several values, was read to the end.
C1_Witness ==
    /\ OneWellFormedBlock
    /\ Len(rets) = 2
    /\ Cardinality(rets[1].obj.Props) = 2
    /\ \E p \in rets[1].obj.Props : p[2] = "a b c"

\* The objects of got that source i made, in the order received.
FromSource(i) == SelectSeq(got, LAMBDA o : o.addr[1] = i)

IsPrefix(s, t) == Len(s) <= Len(t) /\ s = SubSeq(t, 1, Len(s))

\* C2: for every source, the objects of that source received from the merged
\* channel are, in the order received, a prefix of the objects that source's
\* Read returned, in the order it returned them.
C2_PerSourceOrder == \A i \in Sources : IsPrefix(FromSource(i), mfr[i].made)

\* Two sources were merged, their objects interleaved, two of each received.
C2_Witness ==
    /\ Len(mfr) >= 2
    /\ Len(FromSource(1)) >= 2
    /\ Len(FromSource(2)) >= 2
    /\ got[1].addr[1] # got[2].addr[1]

\* C3: no object is received twice, every object received is one its source's
\* Read returned and carries that source's path as FileID, and once the merged
\* channel is closed every adapter has ended and every object that any Read
\* returned has been received.
C3_EachObjectOnce ==
    /\ \A j, k \in DOMAIN got : j # k => got[j].addr # got[k].addr
    /\ \A k \in DOMAIN got :
           /\ got[k].addr[1] \in Sources
           /\ got[k].FileID = Paths[got[k].addr[1]]
           /\ \E n \in DOMAIN mfr[got[k].addr[1]].made :
                  mfr[got[k].addr[1]].made[n] = got[k]
    /\ out.closed =>
           \A i \in Sources :
               /\ adPc[i] = "done"
               /\ \A n \in DOMAIN mfr[i].made : \E k \in DOMAIN got : got[k] = mfr[i].made[n]

\* The merged channel was closed after objects of two sources went through it.
C3_Witness ==
    /\ out.closed
    /\ Len(got) >= 3
    /\ \E j, k \in DOMAIN got : got[j].FileID # got[k].FileID

\* C4: no send ever meets the merged channel closed, and when the merged
\* channel is closed every relay task has seen its source channel closed and
\* drained and has returned.
C4_CloseAfterRelays ==
    /\ ~out.panicked
    /\ out.closed =>
           \A i \in Sources :
               rlPc[i] = "done" /\ fcs[i].closed /\ fcs[i].buf = <<>>

\* The merged channel of two sources was closed after it carried objects.
C4_Witness == out.closed /\ Len(mfr) = 2 /\ got # <<>> /\ mainPc = "ret" /\ wtPc = "done"

\* How often x occurs in the sequence q.
Count(q, x) == Cardinality({i \in DOMAIN q : q[i] = x})

\* The file f holds exactly the objects of cm stamped f, each once.
HoldsItsObjects(f) ==
    /\ files[f].exists
    /\ \A k \in DOMAIN cm :
           Count(files[f].content, cm[k]) = IF cm[k].FileID = f THEN 1 ELSE 0
    /\ \A i \in DOMAIN files[f].content : \E k \in DOMAIN cm : files[f].content[i] = cm[k]

\* C5: once WriteByFileID has started its tasks there is exactly one task per
\* origin file present in the map and none for another file; no file ever holds
\* an object of another origin; and a task whose file was created and written
\* leaves in it exactly the objects stamped with that file, each once.
C5_OneShardPerFile ==
    /\ wPc # "call" =>
           /\ \A k \in DOMAIN cm :
                  Cardinality({t \in DOMAIN tasks : tasks[t].file = cm[k].FileID}) = 1
           /\ \A t \in DOMAIN tasks : \E k \in DOMAIN cm : cm[k].FileID = tasks[t].file
    /\ \A f \in DOMAIN files : \A i \in DOMAIN files[f].content :
           files[f].content[i].FileID = f
    /\ \A t \in DOMAIN tasks :
           tasks[t].pc \in {"send", "done"} /\ tasks[t].fail = "none" =>
               HoldsItsObjects(tasks[t].file)

\* Objects stamped F1, F1, F2 were written: two files, of two and of one object.
C5_Witness ==
    /\ wPc = "ret"
    /\ Len(cm) = 3
    /\ cm[1].FileID = Paths[1] /\ cm[2].FileID = Paths[1] /\ cm[3].FileID = Paths[2]
    /\ Len(tasks) = 2
    /\ Len(files[Paths[1]].content) = 2
    /\ Len(files[Paths[2]].content) = 1

\* The tasks that failed to produce their file.
FailedTasks == {t \in DOMAIN tasks : tasks[t].fail # "none"}

\* C6: WriteByFileID returns a non-nil error if and only if a shard task failed
\* to produce its file (os.Create failed, or the write or flush failed), and the
\* count in the error is the number of tasks that failed.
C6_ErrorIffShardFailed ==
    wPc = "ret" =>
        /\ wret.isNil <=> FailedTasks = {}
        /\ ~wret.isNil => wret.count = Cardinality(FailedTasks)

C7_Safe ==
    /\ ~schan.panicked
    /\ \A t \in DOMAIN tasks :
           /\ tasks[t].sent <= 1
           /\ tasks[t].pc = "done" => tasks[t].sent = 1
    /\ schan.closed => \A t \in DOMAIN tasks : tasks[t].pc = "done"
    /\ wPc = "ret" =>
           \A t \in DOMAIN tasks :
               /\ tasks[t].pc = "done"
               /\ tasks[t].fail = "none" => HoldsItsObjects(tasks[t].file)

\* C7: whichever shards fail, no task sends more than one result and a task
\* that has ended sent exactly one, the results channel is closed only when
\* every task has ended, no send meets it closed, when WriteByFileID has
\* returned every shard that did not fail has written its file, and
\* WriteByFileID does return.
C7_ShardsIndependent == []C7_Safe /\ <>(wPc = "ret")

\* WriteByFileID returned although one shard failed; the other wrote its file.
C7_Witness ==
    /\ wPc = "ret"
    /\ \E t, u \in DOMAIN tasks :
           /\ tasks[t].fail = "create"
           /\ tasks[u].fail = "none"
           /\ files[tasks[u].file].content # <<>>

\* The 1-based physical line of the input that holds the rune at offset pos - 1.
PhysLine(pos) == 1 + Cardinality({i \in 1..pos : SubSeq(input, i, i) = "\n"})

\* The lines ls are comment lines, blank lines and complete blocks (a header of
\* a known type, property lines, a closing line); open tells whether a block is
\* open at the start of ls.
RECURSIVE CommentsBlanksBlocks(_, _)
CommentsBlanksBlocks(ls, open) ==
    IF ls = <<>> THEN ~open
    ELSE LET k == Lines[Head(ls)].kind
         IN  IF k \in {"comment", "blank"} THEN CommentsBlanksBlocks(Tail(ls), open)
             ELSE IF k = "header"
             THEN ~open /\ Lines[Head(ls)].typ \in KnownTypes
                  /\ CommentsBlanksBlocks(Tail(ls), TRUE)
             ELSE IF k = "prop" THEN open /\ CommentsBlanksBlocks(Tail(ls), open)
             ELSE IF k = "close" THEN open /\ CommentsBlanksBlocks(Tail(ls), FALSE)
             ELSE FALSE

\* C8: when Read rejects a block header for its unknown type, a header that
\* only comment lines, blank lines and complete blocks precede, the error is a
\* ParseError whose Line is the physical line of that header.
C8_ErrorLineIsHeaderLine ==
    \A k \in DOMAIN rets :
        (/\ rets[k].site = "badtype"
         /\ CommentsBlanksBlocks(SubSeq(lines, 1, PhysLine(rets[k].pos) - 1), FALSE)) =>
            /\ rets[k].err.kind = "ParseError"
            /\ rets[k].err.Line = PhysLine(rets[k].pos)

\* C9: whenever the last parseLine of a call to Read ended with io.EOF (the
\* input is exhausted), Read returns io.EOF.
C9_StreamEndIsEOF == \A k \in DOMAIN rets : rets[k].atEOF => rets[k].err = EOF

\* C10: every call to Read returns an object with a nil error, or no object
\* with a non-nil error.
C10_ObjectOrError == \A k \in DOMAIN rets : rets[k].obj.nil <=> rets[k].err # NoErr

\* What the caller sees of one return of Read: whether there is an object, its
\* type and property map, and the kind of the error.
Outcome(ret) ==
    [nil |-> ret.obj.nil, Type |-> ret.obj.Type, Props |-> ret.obj.Props,
     err |-> ret.err.kind]

\* The outcomes of the first n calls of the caller's loop on the stream in,
\* started with the reader r; res is what the first of them returned.
RECURSIVE ReadAll(_, _, _)
ReadAllGot(in, res, n) ==
    <<Outcome(res)>> \o
        (IF n <= 1 \/ res.err.kind \in {"EOF", "panic"} THEN <<>>
         ELSE ReadAll(in, res.rd, n - 1))

ReadAll(in, r, n) ==
    IF n <= 0 THEN <<>> ELSE ReadAllGot(in, Read(in, r, setUUID, TheFileID, TheReader), n)

\* The sequence ls without its i-th element.
Without(ls, i) == SubSeq(ls, 1, i - 1) \o SubSeq(ls, i + 1, Len(ls))

CommentLines == {i \in DOMAIN lines : Lines[lines[i]].kind = "comment"}

\* C11: for every comment line of the input, every call to Read returns what
\* the same call returns on the input with that line removed: an object of the
\* same type and property map, or no object and an error of the same kind.
C11_CommentLineIgnored ==
    \A i \in CommentLines :
        \A outs \in {ReadAll(Cat(Without(lines, i)) \o Tails[tail].text, NewReader,
                             Len(rets))} :
            /\ Len(outs) = Len(rets)
            /\ \A k \in DOMAIN rets : outs[k] = Outcome(rets[k])

\* An object was returned whose block has a comment line, full of braces and
\* key/value-looking text, between its header and a property line.
C11_Witness ==
    /\ Len(lines) = 3
    /\ Lines[lines[1]].kind = "header"
    /\ Lines[lines[2]].kind = "comment"
    /\ Lines[lines[3]].kind = "prop"
    /\ Tails[tail].kind = "close"
    /\ Len(rets) >= 1
    /\ ~rets[1].obj.nil
    /\ Cardinality(rets[1].obj.Props) = 1

\* C12: when Read has read again what Print(w, false) wrote for an object that
\* Read returned, it has returned an object of the same type with the same
\* property map.
C12_RoundTrip ==
    pPc \in {"sort", "done"} /\ ~pobj.nil =>
        /\ pret.err = NoErr
        /\ ~pret.obj.nil
        /\ pret.obj.Type = pobj.Type
        /\ pret.obj.Props = pobj.Props

\* C13: two runs of PrintPropsSorted on the same object with the same ranking
\* table write the same sequence of property lines.
C13_SortedDeterministic == Len(sorted) = 2 => sorted[1] = sorted[2]

\* What the call to Read that the adapter of source i makes next returns.
NextRead(i) == Read(mfr[i].in, mfr[i].rd, setUUID, Paths[i], i)

\* The adapter of source i makes a call to Read in this step: every call moves
\* the Reader, parseLine counting at least one line.
AdapterReads(i) == adPc[i] = "read" /\ mfr'[i].rd # mfr[i].rd

\* One step of the adapters: objchan is closed, and the task ends, only in a
\* step whose Read returns io.EOF; a step whose Read returns another error
\* leaves objchan open and the task about to call Read again.
AdapterClosesOnEOFOnly ==
    \A i \in Sources :
        /\ (~fcs[i].closed /\ fcs'[i].closed) => (AdapterReads(i) /\ NextRead(i).err = EOF)
        /\ (adPc[i] # "done" /\ adPc'[i] = "done") =>
               (AdapterReads(i) /\ NextRead(i).err = EOF /\ fcs'[i].closed)
        /\ (AdapterReads(i) /\ NextRead(i).err \notin {NoErr, EOF, Panic}) =>
               (adPc'[i] = "read" /\ ~fcs'[i].closed)

\* The objects of source i that have been sent on its objchan: those still in
\* the buffer, the one its relay holds, and those the consumer has received.
SentOn(i) ==
    FromSource(i) \o (IF rlV[i].nil THEN <<>> ELSE <<rlV[i]>>) \o fcs[i].buf

\* Every object that Read returned to the adapter of source i, before or after
\* an error, has been sent once objchan is closed, and all but the one in the
\* adapter's hand before that.
AllReturnedAreSent ==
    \A i \in Sources :
        mfr[i].made = SentOn(i) \o (IF adObj[i].nil THEN <<>> ELSE <<adObj[i]>>)

\* C14: the adapter of a source closes its channel, and ends, only after Read
\* has returned io.EOF; a Read that returns any other error closes nothing and
\* is followed by another Read; the objects returned before and after such an
\* error are all sent on the channel.
C14_CloseOnlyOnEOF ==
    /\ [][AdapterClosesOnEOFOnly]_vars
    /\ [](AllReturnedAreSent /\ \A i \in Sources : fcs[i].closed => adObj[i].nil)

\* Source 1, whose stream failed once in the middle and whose first block has
\* an invalid type, is closed at io.EOF and the consumer has the object that
\* Read returned after the errors.
C14_Witness ==
    /\ Len(mfr) >= 1
    /\ mfr[1].in = Cat(<<3, 8, 2, 8>>)
    /\ mfr[1].rd.failAt > 0
    /\ mfr[1].rd.ioerr = "none"
    /\ fcs[1].closed
    /\ adPc[1] = "done"
    /\ FromSource(1) # <<>>
    /\ FromSource(1) = mfr[1].made

\* The number of objects that reading the stream in to its end returns when no
\* read of it fails.
ObjectsIn(in) ==
    Len(SelectSeq(ReadAll(in, NewReader, Len(in) + 1), LAMBDA ret : ~ret.nil))

\* The relay of source j has returned and the consumer has every object of
\* that source.
Delivered(j) ==
    /\ rlPc[j] = "done"
    /\ Len(FromSource(j)) = ObjectsIn(mfr[j].in)

\* C15: when the reads of source 1 fail with an I/O error, once or on every
\* call, every object of every other source is still delivered to the
\* consumer, and these sources' relays return.
C15_OthersDelivered == <>[](\A j \in Sources \ {1} : Delivered(j))

\* Source 1 has failed on every read up to the last retry followed, its
\* channel is open, and the consumer has all the objects of source 2.
C15_Witness ==
    /\ Len(mfr) = 2
    /\ mfr[1].rd.ioerr = "always"
    /\ mfr[1].rd.line = MaxRetries
    /\ ~fcs[1].closed
    /\ Delivered(2)
    /\ FromSource(2) # <<>>

\* C16: with inputs that end with io.EOF and fail in no other way, and a
\* consumer that receives, every adapter closes its channel and the merged
\* channel is closed, whatever parse errors the inputs hold.
C16_AllClosed == <>(out.closed /\ \A i \in Sources : fcs[i].closed)

\* C17: when the merged channel is closed after MultiFileReader.ReadChan with
\* setUUID, the read-order ledger holds the UUID of every object created,
\* each exactly once.
C17_LedgerHoldsAll ==
    out.closed =>
        \A i \in Sources : \A n \in 1..Len(mfr[i].made) :
            Count(uuidorder, mfr[i].made[n].UUID) = 1

\* C21: the call to Read in which a read of the stream failed while the field
\* scanner was inside a line returns a ParseError that carries the reader's
\* line and column, not the error of the stream itself.
C21_ScannerErrorIsParseError ==
    (rets # <<>> /\ rd.failAt > 0 /\ rets[Len(rets)].pos = rd.failAt) =>
        rets[Len(rets)].err = ParseError(rd)

\* The offset of the last "{" of the input, and its 0-based rune index within
\* its physical line.
LastBrace == CHOOSE q \in 1..Len(input) :
                 /\ SubSeq(input, q, q) = "{"
                 /\ \A p \in (q + 1)..Len(input) : SubSeq(input, p, p) # "{"

BraceIndex ==
    Cardinality({p \in 1..(LastBrace - 1) :
                    \A n \in p..(LastBrace - 1) : SubSeq(input, n, n) # "\n"})

\* The "{" was taken as part of the value: a call returned the field "v{w".
BraceKept ==
    \E k \in DOMAIN rets : \E f \in DOMAIN rets[k].fields : rets[k].fields[f] = "v{w"

\* The "{" ended the field: a call returned at the "{" with the line class
\* ObjectBegin and "v" as its last field.
BraceEndsField ==
    \E k \in DOMAIN rets :
        /\ rets[k].state = IO_OBJ_BEGIN
        /\ rets[k].pos = LastBrace
        /\ rets[k].fields # <<>>
        /\ rets[k].fields[Len(rets[k].fields)] = "v"

\* C22: a "{" met while a field is accumulated is part of the value exactly
\* when its 0-based rune index within its physical line is greater than
\* DEF_ALIGN, and ends the field with the line class ObjectBegin otherwise.
C22_BraceByColumnOfLine ==
    (rets # <<>> /\ rets[Len(rets)].err = EOF) =>
        IF BraceIndex > DEF_ALIGN
        THEN BraceKept /\ ~BraceEndsField
        ELSE BraceEndsField /\ ~BraceKept

\* What one return of Read leaves behind: the object with its identity and
\* FileID, the kind of the error, and the UUIDs appended to uuidorder.
ReturnOf(res) == [obj |-> res.obj, err |-> res.err.kind, appended |-> res.appended]

\* What the first n calls of the caller's loop on the stream in leave behind,
\* started with the reader r; res is what the first of them returned.
RECURSIVE ReadAllFull(_, _, _)
ReadAllFullGot(in, res, n) ==
    <<ReturnOf(res)>> \o
        (IF n <= 1 \/ res.err.kind \in {"EOF", "panic"} THEN <<>>
         ELSE ReadAllFull(in, res.rd, n - 1))

ReadAllFull(in, r, n) ==
    IF n <= 0 THEN <<>>
    ELSE ReadAllFullGot(in, Read(in, r, setUUID, TheFileID, TheReader), n)

\* The UUIDs that the returns outs appended, in order.
RECURSIVE LedgerOf(_)
LedgerOf(outs) == IF outs = <<>> THEN <<>> ELSE Head(outs).appended \o LedgerOf(Tail(outs))

\* Whether a block is open after the first n of the lines ls: a header of a
\* known type met outside a block opens one, a closing line closes it.
RECURSIVE OpenAfter(_, _)
OpenAfter(ls, n) ==
    IF n = 0 THEN FALSE
    ELSE IF Lines[ls[n]].kind = "close" THEN FALSE
    ELSE IF Lines[ls[n]].kind = "header" /\ ~OpenAfter(ls, n - 1)
    THEN Lines[ls[n]].typ \in KnownTypes
    ELSE OpenAfter(ls, n - 1)

\* The header lines that come while a block is open.
NestedHeaders ==
    {i \in DOMAIN lines : Lines[lines[i]].kind = "header" /\ OpenAfter(lines, i - 1)}

\* C23: a line classified ObjectBegin that comes while an object is open
\* changes nothing: every call to Read returns what it returns on the input
\* without that line, the same object (address, type, properties, UUID,
\* FileID) or no object and the same kind of error, and the calls have
\* appended the same UUIDs to the read-order ledger.
C23_NestedBeginChangesNothing ==
    \A i \in NestedHeaders :
        \A outs \in {ReadAllFull(Cat(Without(lines, i)) \o Tails[tail].text, NewReader,
                                 Len(rets))} :
            /\ Len(outs) = Len(rets)
            /\ \A k \in DOMAIN rets :
                   /\ outs[k].obj = rets[k].obj
                   /\ outs[k].err = rets[k].err.kind
            /\ LedgerOf(outs) = uuidorder

\* Read has returned the object of a block that holds a second header line
\* between its header and its closing line, and the ledger holds that
\* object's UUID alone.
C23_Witness ==
    /\ Len(lines) = 3
    /\ lines[1] = 1
    /\ Lines[lines[2]].kind = "header"
    /\ lines[3] = 8
    /\ rets # <<>>
    /\ ~rets[1].obj.nil
    /\ rets[1].obj.Type = "service"
    /\ uuidorder = <<rets[1].obj.UUID>>

\* The property lines of fewer than two fields that come while a block is open.
ShortLinesInBlock ==
    {i \in DOMAIN lines : Lines[lines[i]].kind = "short" /\ OpenAfter(lines, i - 1)}

C25_EveryPropertyOnce ==
    \A n \in DOMAIN sorted :
        /\ Len(sorted[n]) = Cardinality(pobj.Props)
        /\ {sorted[n][i] : i \in DOMAIN sorted[n]} = pobj.Props

\* The objects that the calls to Read returned, in call order.
Returned == SelectSeq(rets, LAMBDA ret : ~ret.obj.nil)

\* C18: when a source has been read to the end with setUUID, the read-order
\* ledger is the sequence of the UUIDs of the objects that Read returned, in
\* the order it returned them.
C18_LedgerIsWhatWasReturned ==
    (setUUID /\ rets # <<>> /\ rets[Len(rets)].err = EOF) =>
        uuidorder = [k \in DOMAIN Returned |-> Returned[k].obj.UUID]

\* C19: no call to Read ends in an out-of-range access: each returns an object
\* or an error.
C19_NoOutOfRange == \A k \in DOMAIN rets : rets[k].err # Panic

\* The input is one block of a known type whose body is property lines only,
\* keys possibly repeated, and that is closed.
OneBlockOfProps ==
    /\ Len(lines) >= 1
    /\ Lines[lines[1]].kind = "header"
    /\ Lines[lines[1]].typ \in KnownTypes
    /\ \/ Tails[tail].kind = "close"
       \/ /\ Tails[tail].kind = "none"
          /\ Len(lines) >= 2
          /\ Lines[lines[Len(lines)]].kind = "close"
    /\ \A i \in DOMAIN BlockBody : Lines[BlockBody[i]].kind = "prop"

\* C20: the object returned for a block holds, for the key of every property
\* line of the block, the values of the last line with that key, joined with
\* single spaces.
C20_LastLineIsStored ==
    (OneBlockOfProps /\ rets # <<>>) =>
        /\ ~rets[1].obj.nil
        /\ \A i \in DOMAIN BlockBody :
               (\A j \in DOMAIN BlockBody :
                    j > i => Lines[BlockBody[j]].key # Lines[BlockBody[i]].key) =>
                   <<Lines[BlockBody[i]].key, Spaced(Lines[BlockBody[i]].vals)>>
                       \in rets[1].obj.Props

====
